---- MODULE Spec2Model ----
(***************************************************************************)
(* RetirePro: the year-by-year retirement simulation engine                *)
(* (src/utils/calculations.ts, runSimulation) and the caller that invokes  *)
(* it.                                                                     *)
(*                                                                         *)
(* Numbers.  The engine computes on JavaScript numbers.  They are modelled *)
(* as exact rationals <<n, d>> (d > 0, lowest terms), so the model covers  *)
(* the engine's arithmetic without the rounding error of IEEE doubles;     *)
(* the arithmetic is written as functions, which take their arguments by   *)
(* value.                                                                  *)
(* Math.round is modelled exactly (nearest integer, ties towards +inf).    *)
(* NaN and the infinities are not modelled.                                *)
(*                                                                         *)
(* Objects.  The asset objects live in a heap indexed by references, so    *)
(* that the caller's objects and the engine's working copies are distinct  *)
(* objects only because line 13 of calculations.ts allocates new ones.     *)
(***************************************************************************)
EXTENDS Integers, Sequences, FiniteSets, TLC

(***************************************************************************)
(* Bounds of the model.                                                    *)
(***************************************************************************)
MaxSpan == 2
MaxAssets == 2
MaxStreams == 2
MaxRuns == 2
MaxTicks == 1
MaxScenarios == 2
MaxCopies == 1

(***************************************************************************)
(* Exact rational arithmetic for the JavaScript number operators.          *)
(***************************************************************************)
\* the number pairs
Q == Int \X Int

Abs[n \in Int] == IF n < 0 THEN -n ELSE n

\* greatest common divisor (Euclid)
GCD[a \in Nat, b \in Nat] == IF b = 0 THEN a ELSE GCD[b, a % b]

\* n / d in lowest terms, d > 0
Rat[n \in Int, d \in Int] == LET g == GCD[Abs[n], d] IN <<n \div g, d \div g>>

RInt[n \in Int] == <<n, 1>>

Zero == RInt[0]

RAdd[a \in Q, b \in Q] ==
  LET g == GCD[a[2], b[2]]
  IN  Rat[a[1] * (b[2] \div g) + b[1] * (a[2] \div g), (a[2] \div g) * b[2]]

RNeg[a \in Q] == <<-a[1], a[2]>>

RSub[a \in Q, b \in Q] == RAdd[a, RNeg[b]]

RMul[a \in Q, b \in Q] ==
  LET g1 == GCD[Abs[a[1]], b[2]]
      g2 == GCD[Abs[b[1]], a[2]]
  IN  Rat[(a[1] \div g1) * (b[1] \div g2), (a[2] \div g2) * (b[2] \div g1)]

\* a / b for b # 0 (the engine divides only by totalAvailable > 0)
RDiv[a \in Q, b \in Q] ==
  RMul[a, IF b[1] > 0 THEN <<b[2], b[1]>> ELSE <<-b[2], -b[1]>>]

RLt[a \in Q, b \in Q] == RSub[a, b][1] < 0

RLe[a \in Q, b \in Q] == RSub[a, b][1] <= 0

RGt[a \in Q, b \in Q] == RLt[b, a]

RGe[a \in Q, b \in Q] == RLe[b, a]

\* Math.round: the nearest integer, a tie going to the larger one
RRound[a \in Q] == (2 * a[1] + a[2]) \div (2 * a[2])

\* Math.pow(base, i) for an integer exponent i >= 0
RPow[base \in Q, i \in Nat] ==
  IF i = 0 THEN RInt[1] ELSE RMul[base, RPow[base, i - 1]]

\* rate / 100
Percent[rate \in Q] == RDiv[rate, RInt[100]]

(***************************************************************************)
(* number | null                                                           *)
(***************************************************************************)
NULL == <<>>

Num(a) == <<a>>

\* JavaScript truthiness of a (number | null): null and 0 are falsy
Truthy(v) == v # NULL /\ v[1] # 0

(***************************************************************************)
(* Record<string, number>                                                  *)
(***************************************************************************)
EmptyMap == <<>>

Put(m, k, v) == [x \in (DOMAIN m) \cup {k} |-> IF x = k THEN v ELSE m[x]]

HasKey(m, k) == k \in DOMAIN m

Range(s) == {s[k] : k \in DOMAIN s}

(***************************************************************************)
(* The caller's inputs.  An asset is [balance, contribution, returnRate],  *)
(* an income stream [name, monthlyAmount, startAge, endAge, growthRate],   *)
(* the settings [currentAge, retirementAge, planningHorizon,               *)
(* monthlySpending, inflationRate]; the fields the engine never reads      *)
(* (id, type, isTaxable, preRetirementReturn) are left out.                *)
(***************************************************************************)
FirstYear == 2026

AgeStarts == {-1, 0}

AssetKinds ==
  << [balance |-> RInt[24], contribution |-> RInt[0], returnRate |-> RInt[0]],
     [balance |-> RInt[8],  contribution |-> RInt[6], returnRate |-> RInt[50]],
     [balance |-> RInt[-5], contribution |-> RInt[0], returnRate |-> RInt[50]] >>

StreamKinds ==
  << [name |-> "Pension", monthlyAmount |-> Rat[47, 48], startAge |-> 0,
      endAge |-> 1, growthRate |-> RInt[0]],
     [name |-> "Pension", monthlyAmount |-> RInt[1], startAge |-> -1,
      endAge |-> 2, growthRate |-> RInt[50]],
     [name |-> "Income Shortage", monthlyAmount |-> RInt[2], startAge |-> 0,
      endAge |-> 0, growthRate |-> RInt[0]] >>

\* the asset lists of at most MaxAssets assets, kinds in non-decreasing order
AssetLists ==
  UNION { { [k \in 1..n |-> AssetKinds[f[k]]] :
              f \in { g \in [1..n -> DOMAIN AssetKinds] :
                        \A j \in 1..n, k \in 1..n : j < k => g[j] <= g[k] } } :
          n \in 0..MaxAssets }

\* the stream lists of at most MaxStreams different streams, in every order
StreamLists ==
  UNION { { [k \in 1..n |-> StreamKinds[f[k]]] :
              f \in { g \in [1..n -> DOMAIN StreamKinds] :
                        \A j \in 1..n, k \in 1..n : j # k => g[j] # g[k] } } :
          n \in 0..MaxStreams }

SettingsSet ==
  { [currentAge |-> ca, retirementAge |-> ra, planningHorizon |-> ph,
     monthlySpending |-> RInt[1], inflationRate |-> RInt[ir]] :
      ca \in AgeStarts, ra \in -1..1, ph \in -2..MaxSpan, ir \in {0, 50} }

\* an asset list with a stream list, one of the two of length 0 or 1
Portfolios ==
  { p \in AssetLists \X StreamLists : Len(p[1]) <= 1 \/ Len(p[2]) <= 1 }

GenericInputs ==
  { [settings |-> st, assets |-> p[1], incomeStreams |-> p[2]] :
      st \in { x \in SettingsSet :
                 /\ x.planningHorizon >= x.currentAge - 1
                 /\ x.planningHorizon <= x.currentAge + MaxSpan
                 /\ x.retirementAge >= x.currentAge
                 /\ x.retirementAge <= x.currentAge + 1 },
      p \in Portfolios }

\* spec.md section 8, Scenario A
ScenarioA ==
  [settings |-> [currentAge |-> 65, retirementAge |-> 65,
                 planningHorizon |-> 66, monthlySpending |-> RInt[4000],
                 inflationRate |-> RInt[0]],
   assets |-> << [balance |-> RInt[100000], contribution |-> RInt[0],
                  returnRate |-> RInt[0]] >>,
   incomeStreams |-> << [name |-> "Pension", monthlyAmount |-> RInt[4000],
                         startAge |-> 65, endAge |-> 66,
                         growthRate |-> RInt[0]] >>]

\* spec.md section 8, Scenario B
ScenarioB ==
  [settings |-> [currentAge |-> 65, retirementAge |-> 65,
                 planningHorizon |-> 66, monthlySpending |-> RInt[200],
                 inflationRate |-> RInt[0]],
   assets |-> << [balance |-> RInt[1000], contribution |-> RInt[0],
                  returnRate |-> RInt[0]] >>,
   incomeStreams |-> << >>]

\* spec.md section 8, Scenario C
ScenarioC ==
  [settings |-> [currentAge |-> 60, retirementAge |-> 62,
                 planningHorizon |-> 62, monthlySpending |-> RInt[100],
                 inflationRate |-> RInt[0]],
   assets |-> << [balance |-> RInt[0], contribution |-> RInt[10000],
                  returnRate |-> RInt[5]] >>,
   incomeStreams |-> << >>]

\* two working years before retirement, under inflation
LateRetirement ==
  { [settings |-> [currentAge |-> 0, retirementAge |-> 2,
                   planningHorizon |-> 2, monthlySpending |-> RInt[1],
                   inflationRate |-> RInt[50]],
     assets |-> as, incomeStreams |-> << >>] : as \in AssetLists }

\* an annuity paid at age 1 only, growing by 50% a year, in a plan that runs
\* from age 0 to age 2
DeferredAnnuity ==
  { [settings |-> [currentAge |-> 0, retirementAge |-> 0,
                   planningHorizon |-> 2, monthlySpending |-> RInt[1],
                   inflationRate |-> RInt[0]],
     assets |-> as,
     incomeStreams |-> << [name |-> "Annuity", monthlyAmount |-> RInt[1],
                           startAge |-> 1, endAge |-> 1,
                           growthRate |-> RInt[50]] >>] :
       as \in {<< >>, << AssetKinds[1] >>} }

\* a debt of 5 at 50% interest with a contribution of 12 a year, in a plan
\* with one working year or none
Overdrawn ==
  { [settings |-> [currentAge |-> 0, retirementAge |-> ra,
                   planningHorizon |-> 1, monthlySpending |-> RInt[1],
                   inflationRate |-> RInt[0]],
     assets |-> << [balance |-> RInt[-5], contribution |-> RInt[12],
                    returnRate |-> RInt[50]] >>,
     incomeStreams |-> << >>] : ra \in {0, 1} }

\* an asset that loses all of its value every year
Wipeout ==
  [settings |-> [currentAge |-> 0, retirementAge |-> 0,
                 planningHorizon |-> 1, monthlySpending |-> RInt[1],
                 inflationRate |-> RInt[0]],
   assets |-> << [balance |-> RInt[24], contribution |-> RInt[0],
                  returnRate |-> RInt[-100]] >>,
   incomeStreams |-> << >>]

Inputs ==
  GenericInputs \cup LateRetirement \cup DeferredAnnuity \cup Overdrawn
    \cup {ScenarioA, ScenarioB, ScenarioC, Wipeout}

\* the generic inputs and the three scenarios with at most one income stream
\* (the termination check)
TermInputs ==
  {inp \in GenericInputs \cup LateRetirement
            \cup {ScenarioA, ScenarioB, ScenarioC} :
     Len(inp.incomeStreams) <= 1}

(***************************************************************************)
(* The heap of asset objects.                                              *)
(***************************************************************************)
Refs == 1..(2 * MaxAssets)

FreeCell == [balance |-> Zero, contribution |-> Zero, returnRate |-> Zero]

\* the objects behind a sequence of references
Deref(h, refs) == [k \in DOMAIN refs |-> h[refs[k]]]

(***************************************************************************)
(* runSimulation, the pure pieces.                                         *)
(***************************************************************************)
\* line 9 without the "+ 1" (the last age is left out)
YearsToRun_exclusive(st) == st.planningHorizon - st.currentAge

\* line 9
YearsToRun(st) == st.planningHorizon - st.currentAge + 1

\* line 17: the loop condition
LoopCond_inclusive(i, yearsToRun) == i <= yearsToRun

LoopCond(i, yearsToRun) == i < yearsToRun

\* line 13 without the copy: the working list holds the caller's own objects
CopyRefs_alias(refs) == refs

\* line 13: assets.map(a => ({ ...a })) allocates one new object per asset
CopyRefs(refs) == [k \in DOMAIN refs |-> Len(refs) + k]

\* line 13: the heap once the working copies are allocated at refs
Allocate(h, from, refs) ==
  [r \in DOMAIN h |->
     IF \E k \in DOMAIN refs : refs[k] = r
     THEN h[from[CHOOSE k \in DOMAIN refs : refs[k] = r]]
     ELSE h[r]]

RECURSIVE SumBalances(_, _, _)
SumBalances(h, refs, k) ==
  IF k = 0 THEN Zero ELSE RAdd[SumBalances(h, refs, k - 1), h[refs[k]].balance]

\* lines 14, 78, 106: reduce((sum, a) => sum + a.balance, 0)
TotalBalance(h, refs) == SumBalances(h, refs, Len(refs))

\* line 19 without the index: every record carries the start year
CurrentYear_fixed(startYear, i) == startYear

\* line 19
CurrentYear(startYear, i) == startYear + i

\* line 20 with a strict comparison: the retirement age itself still counts
\* as a working year
IsRetired_strict(st, currentAge) == currentAge > st.retirementAge

\* line 20
IsRetired(st, currentAge) == currentAge >= st.retirementAge

\* line 23
InflationMultiplier(st, i) ==
  RPow[RAdd[RInt[1], Percent[st.inflationRate]], i]

\* line 24
RequiredAnnualExpense(st, i) ==
  RMul[RMul[st.monthlySpending, RInt[12]], InflationMultiplier(st, i)]

\* line 31
StreamActive(stream, currentAge) ==
  currentAge >= stream.startAge /\ currentAge <= stream.endAge

\* line 33
StreamYearsActive(stream, currentAge) ==
  IF currentAge - stream.startAge > 0 THEN currentAge - stream.startAge ELSE 0

\* line 37 with the growth counted from the stream's own start age
GrowthYears_sinceStart(streamYearsActive, i) == streamYearsActive

\* line 37: the exponent of the stream multiplier is the year index;
\* streamYearsActive is computed and not used
GrowthYears(streamYearsActive, i) == i

\* lines 37-38
AnnualAmount(stream, i) ==
  RMul[RMul[stream.monthlyAmount, RInt[12]],
       RPow[RAdd[RInt[1], Percent[stream.growthRate]], i]]

\* lines 27-43: totalFixedIncome and breakdown after the first k streams
RECURSIVE ProcessStreams(_, _, _, _)
ProcessStreams(streams, k, currentAge, i) ==
  IF k = 0
  THEN [totalFixedIncome |-> Zero, breakdown |-> EmptyMap]
  ELSE LET prev == ProcessStreams(streams, k - 1, currentAge, i)
           stream == streams[k]
           annualAmount ==
             AnnualAmount(stream,
                          GrowthYears(StreamYearsActive(stream, currentAge), i))
       IN  IF StreamActive(stream, currentAge)
           THEN [totalFixedIncome |->
                   RAdd[prev.totalFixedIncome, annualAmount],
                 breakdown |->
                   Put(prev.breakdown, stream.name, RRound[annualAmount])]
           ELSE prev

\* lines 51-61 with the contribution added before the growth is computed
GrownBalance_contributionFirst(asset, isRetired, inflationMultiplier) ==
  LET paid == IF ~isRetired
              THEN RAdd[asset.balance,
                        RMul[asset.contribution, inflationMultiplier]]
              ELSE asset.balance
  IN  RAdd[paid, RMul[paid, Percent[asset.returnRate]]]

\* lines 51-61: one asset's balance after growth and contribution
GrownBalance(asset, isRetired, inflationMultiplier) ==
  LET growth == RMul[asset.balance, Percent[asset.returnRate]]
      grown == RAdd[asset.balance, growth]
  IN  IF ~isRetired
      THEN RAdd[grown, RMul[asset.contribution, inflationMultiplier]]
      ELSE grown

\* lines 49-63: currentAssets.forEach over the working copies
GrowAssets(h, refs, isRetired, inflationMultiplier) ==
  [r \in DOMAIN h |->
     IF r \in Range(refs)
     THEN [h[r] EXCEPT
             !.balance = GrownBalance(h[r], isRetired, inflationMultiplier)]
     ELSE h[r]]

\* lines 66-74 with the operands of the gap swapped
WithdrawalNeeded_swapped(isRetired, requiredAnnualExpense, totalFixedIncome) ==
  LET gap == RSub[totalFixedIncome, requiredAnnualExpense]
  IN  IF isRetired /\ RGt[gap, Zero] THEN gap ELSE Zero

\* lines 66-74
WithdrawalNeeded(isRetired, requiredAnnualExpense, totalFixedIncome) ==
  LET gap == RSub[requiredAnnualExpense, totalFixedIncome]
  IN  IF isRetired /\ RGt[gap, Zero] THEN gap ELSE Zero

\* lines 85-86 with an equal amount taken from every asset
AfterShare_flat(balance, withdrawalNeeded, totalAvailable) ==
  RSub[balance, RDiv[withdrawalNeeded, totalAvailable]]

\* lines 85-86: one asset's balance after its proportional share is taken
AfterShare(balance, withdrawalNeeded, totalAvailable) ==
  RSub[balance, RMul[withdrawalNeeded, RDiv[balance, totalAvailable]]]

\* line 81 with a strict comparison: an exact match counts as a drain
CanCover_strict(totalAvailable, withdrawalNeeded) ==
  RGt[totalAvailable, withdrawalNeeded]

\* line 81: the portfolio covers the whole need
CanCover(totalAvailable, withdrawalNeeded) ==
  RGe[totalAvailable, withdrawalNeeded]

\* line 95 with a strict comparison: a portfolio of exactly zero is skipped
NothingAvailable_strict(withdrawalNeeded, totalAvailable) ==
  RGt[withdrawalNeeded, Zero] /\ RLt[totalAvailable, Zero]

\* line 95: there is a need and nothing to draw on
NothingAvailable(withdrawalNeeded, totalAvailable) ==
  RGt[withdrawalNeeded, Zero] /\ RLe[totalAvailable, Zero]

\* lines 93, 97 without the assignment: the depletion age is never recorded
RecordDepletion_never(depletionAge, currentAge) == depletionAge

\* lines 93, 97: if (!depletionAge) depletionAge = currentAge
RecordDepletion(depletionAge, currentAge) ==
  IF ~Truthy(depletionAge) THEN Num(currentAge) ELSE depletionAge

\* line 90 with the whole need taken although the portfolio holds less
DrainedWithdrawal_full(totalAvailable, withdrawalNeeded) == withdrawalNeeded

\* line 90: a drained portfolio pays out what it holds
DrainedWithdrawal(totalAvailable, withdrawalNeeded) == totalAvailable

\* line 91 without the assignment: the drained assets keep their balances
DrainedBalance_kept(balance) == balance

\* line 91: asset.balance = 0
DrainedBalance(balance) == Zero

\* lines 77-98: the drawdown on the working copies
Drawdown(h, refs, withdrawalNeeded, depletionAge, currentAge) ==
  LET totalAvailable == TotalBalance(h, refs)
  IN  IF RGt[withdrawalNeeded, Zero] /\ RGt[totalAvailable, Zero]
      THEN IF CanCover(totalAvailable, withdrawalNeeded)
           THEN [heap |-> [r \in DOMAIN h |->
                             IF r \in Range(refs)
                             THEN [h[r] EXCEPT !.balance =
                                     AfterShare(h[r].balance, withdrawalNeeded,
                                                totalAvailable)]
                             ELSE h[r]],
                 actualWithdrawal |-> withdrawalNeeded,
                 shortage |-> Zero,
                 depletionAge |-> depletionAge]
           ELSE [heap |-> [r \in DOMAIN h |->
                             IF r \in Range(refs)
                             THEN [h[r] EXCEPT !.balance =
                                     DrainedBalance(h[r].balance)]
                             ELSE h[r]],
                 actualWithdrawal |->
                   DrainedWithdrawal(totalAvailable, withdrawalNeeded),
                 shortage |-> RSub[withdrawalNeeded, totalAvailable],
                 depletionAge |-> RecordDepletion(depletionAge, currentAge)]
      ELSE IF NothingAvailable(withdrawalNeeded, totalAvailable)
           THEN [heap |-> h,
                 actualWithdrawal |-> Zero,
                 shortage |-> withdrawalNeeded,
                 depletionAge |-> RecordDepletion(depletionAge, currentAge)]
           ELSE [heap |-> h,
                 actualWithdrawal |-> Zero,
                 shortage |-> Zero,
                 depletionAge |-> depletionAge]

\* lines 100-103
FinishBreakdown(breakdown, actualWithdrawal, shortage) ==
  LET b == Put(breakdown, "Portfolio Withdrawals", RRound[actualWithdrawal])
  IN  IF RGt[shortage, Zero]
      THEN Put(b, "Income Shortage", RRound[shortage])
      ELSE b

\* lines 108-117: the YearData record pushed for one year
YearRecord(currentAge, currentYear, requiredAnnualExpense, income, drawn, balance) ==
  [age |-> currentAge,
   year |-> currentYear,
   expenses |-> RRound[requiredAnnualExpense],
   totalIncome |->
     RRound[RAdd[income.totalFixedIncome, drawn.actualWithdrawal]],
   portfolioBalance |-> RRound[balance],
   withdrawals |-> RRound[drawn.actualWithdrawal],
   shortfall |-> RRound[drawn.shortage],
   breakdown |->
     FinishBreakdown(income.breakdown, drawn.actualWithdrawal,
                     drawn.shortage)]

\* line 121 written as a truthiness test: success: !depletionAge
Success_falsy(depletionAge) == ~Truthy(depletionAge)

\* line 121
Success(depletionAge) == depletionAge = NULL

\* line 123 with the balance rounded as the YearData fields are
FinalBalance_rounded(portfolioBalance) == RInt[RRound[portfolioBalance]]

\* line 123: the running balance goes into the result as it is
FinalBalance(portfolioBalance) == portfolioBalance

(***************************************************************************)
(* runSimulation as one call: what the application gets back when it       *)
(* invokes the function from a render.                                     *)
(***************************************************************************)
\* F(v) with v evaluated once, as a statement sequence evaluates it
Let(v, F(_)) == CHOOSE y \in {F(x) : x \in {v}} : TRUE

\* lines 17-118: the loop state after the iteration with index idx
YearResult(st, streams, refs, year, idx, s) ==
  LET currentAge == st.currentAge + idx
      isRetired == IsRetired(st, currentAge)
  IN
  Let(InflationMultiplier(st, idx), LAMBDA inflationMultiplier :
  Let(RequiredAnnualExpense(st, idx), LAMBDA requiredAnnualExpense :
  Let(ProcessStreams(streams, Len(streams), currentAge, idx), LAMBDA income :
  Let(GrowAssets(s.heap, refs, isRetired, inflationMultiplier), LAMBDA grown :
  Let(WithdrawalNeeded(isRetired, requiredAnnualExpense,
                       income.totalFixedIncome), LAMBDA withdrawalNeeded :
  Let(Drawdown(grown, refs, withdrawalNeeded, s.depletionAge, currentAge),
      LAMBDA drawn :
  Let(TotalBalance(drawn.heap, refs), LAMBDA balance :
    [heap |-> drawn.heap,
     depletionAge |-> drawn.depletionAge,
     portfolioBalance |-> balance,
     data |-> Append(s.data,
                YearRecord(currentAge, CurrentYear(year, idx),
                           requiredAnnualExpense, income, drawn, balance))]
  )))))))

\* line 17: the loop from index idx on
RECURSIVE RunFrom(_, _, _, _, _, _, _)
RunFrom(st, streams, refs, year, yearsToRun, idx, s) ==
  IF LoopCond(idx, yearsToRun)
  THEN Let(YearResult(st, streams, refs, year, idx, s), LAMBDA next :
         RunFrom(st, streams, refs, year, yearsToRun, idx + 1, next))
  ELSE s

\* lines 3-126: the SimulationResult of runSimulation(settings, assets,
\* incomeStreams) called in calendar year `year`
RunSimulation(st, as, streams, year) ==
  LET from == [k \in DOMAIN as |-> k]
      h0 == [r \in Refs |-> IF r \in DOMAIN as THEN as[r] ELSE FreeCell]
      copies == CopyRefs(from)
  IN
  Let(Allocate(h0, from, copies), LAMBDA h :
  Let(RunFrom(st, streams, copies, year, YearsToRun(st), 0,
              [heap |-> h, depletionAge |-> NULL,
               portfolioBalance |-> TotalBalance(h, copies),
               data |-> << >>]), LAMBDA final :
    [success |-> Success(final.depletionAge),
     depletionAge |-> final.depletionAge,
     finalBalance |-> FinalBalance(final.portfolioBalance),
     data |-> final.data]
  ))

(***************************************************************************)
(* State.                                                                  *)
(*   calendarYear           the environment's clock (new Date())           *)
(*   settings, assets, incomeStreams, heap                                 *)
(*                          the caller's arguments; assets is a sequence   *)
(*                          of references into heap                        *)
(*   before                 the caller's values when the call was made     *)
(*   pc                     "idle", "loop" (inside runSimulation), "done"  *)
(*   startYear .. data      the locals of runSimulation                    *)
(*   yr                     the locals of the latest loop iteration, with  *)
(*                          the balances it started from (opening) and the *)
(*                          balances after growth and contribution         *)
(*                          (available)                                    *)
(*   results                the results returned to the caller so far      *)
(* and of the App component:                                               *)
(*   scenarios, activeScenarioId, aiAnalysis, isAnalyzing                  *)
(*                          its React state                                *)
(*   simulationResult       the memoised result of runSimulation           *)
(*   simulated              the arguments of the latest runSimulation call *)
(*                          made by a render                               *)
(*   crashed                a render has thrown: nothing is displayed      *)
(*   alerted                the alert() raised by the latest handler, ""   *)
(*                          when it raised none                            *)
(*   request                the advisory call of handleAnalyze: its        *)
(*                          position and what it was given                 *)
(***************************************************************************)
VARIABLES calendarYear, settings, assets, incomeStreams, heap, before, pc,
          startYear, yearsToRun, i, currentAssets, portfolioBalance,
          depletionAge, data, yr, results,
          scenarios, activeScenarioId, aiAnalysis, isAnalyzing,
          simulationResult, simulated, crashed, alerted, request

engineVars ==
  <<calendarYear, settings, assets, incomeStreams, heap, before, pc,
    startYear, yearsToRun, i, currentAssets, portfolioBalance,
    depletionAge, data, yr, results>>

appVars ==
  <<scenarios, activeScenarioId, aiAnalysis, isAnalyzing, simulationResult,
    simulated, crashed, alerted, request>>

vars == <<engineVars, appVars>>

\* the caller's view of its arguments
CallerView ==
  [settings |-> settings, assets |-> Deref(heap, assets),
   incomeStreams |-> incomeStreams]

NoYear ==
  [currentAge |-> 0, isRetired |-> FALSE, requiredAnnualExpense |-> Zero,
   totalFixedIncome |-> Zero, withdrawalNeeded |-> Zero,
   totalAvailable |-> Zero, opening |-> <<>>, available |-> <<>>,
   actualWithdrawal |-> Zero, shortage |-> Zero, depletionBefore |-> NULL]

(***************************************************************************)
(* The App component, the pure pieces.  A value that may be missing is     *)
(* Undefined or Some(value).                                               *)
(***************************************************************************)
Undefined == << >>

Some(x) == << x >>

\* a scenario name: a text followed by a number of " (Copy)" suffixes
Name(text, copies) == << text, copies >>

\* the name 'Base Plan' of the initial scenario (line 59)
BaseName == Name("Base Plan", 0)

\* the settings, asset and income objects a scenario refers to, named by
\* where they were made (the literal of line 57, entry n of a parsed
\* document, the clone made under id n): two scenarios with the same objects
\* share them, two scenarios with different objects have no object in common
Objects(origin, n) == << origin, n >>

\* part_002 lines 57-64: a scenario holding the three input records
Scenario(id, inp) ==
  [id |-> id, name |-> Some(BaseName), settings |-> Some(inp.settings),
   assets |-> Some(inp.assets), incomeStreams |-> Some(inp.incomeStreams),
   objects |-> Objects("literal", 0)]

\* a scenario entry of a file that has an id and nothing else
BareEntry(id) ==
  [id |-> id, name |-> Undefined, settings |-> Undefined,
   assets |-> Undefined, incomeStreams |-> Undefined,
   objects |-> Objects("literal", 0)]

\* line 159: JSON.parse builds new objects for every entry of the document
Parsed(list) ==
  [k \in DOMAIN list |-> [list[k] EXCEPT !.objects = Objects("parsed", k)]]

\* line 110 as a spread: { ...activeScenario } refers to the objects of the
\* original
JsonClone_shallow(s, fresh) == s

\* line 110: JSON.parse(JSON.stringify(activeScenario)) has the values of
\* the original (finite numbers, strings and arrays survive the round trip,
\* a missing field stays missing) in objects of its own
JsonClone(s, fresh) == [s EXCEPT !.objects = fresh]

\* line 112: `${activeScenario.name} (Copy)`
CopyName(name) ==
  IF name = Undefined
  THEN Some(Name("undefined", 1))
  ELSE Some(Name(name[1][1], name[1][2] + 1))

\* the " (Copy)" suffixes of a name
Copies(name) == IF name = Undefined THEN 0 ELSE name[1][2]

\* line 81 applied to every scenario, whatever its id
Updated_every(list, id, field, value) ==
  [k \in DOMAIN list |-> [list[k] EXCEPT ![field] = value]]

\* lines 80-82: prev.map(s => s.id === activeScenarioId ? {...s, ...updates} : s)
\* for updates = { [field]: value }
Updated(list, id, field, value) ==
  [k \in DOMAIN list |->
     IF list[k].id = id THEN [list[k] EXCEPT ![field] = value] ELSE list[k]]

\* the id 'default' of the initial scenario (line 58)
DefaultId == 0

\* Scenario B with a lower spending target (an edit of the settings)
ScenarioB50 ==
  [ScenarioB EXCEPT !.settings.monthlySpending = RInt[50]]

\* the plans the application's scenarios are filled with (the defaults of
\* lines 32-50 run for 51 years; these two run for 2)
AppPlans == {ScenarioB, ScenarioB50}

\* Scenario B after an edit of its settings and of its asset
ScenarioBEdited ==
  [settings |-> ScenarioB50.settings,
   assets |-> << [balance |-> RInt[3000], contribution |-> RInt[0],
                  returnRate |-> RInt[0]] >>,
   incomeStreams |-> ScenarioB.incomeStreams]

\* the values the edits of the scenario operations put into a record
EditPlans == {ScenarioB, ScenarioBEdited}

\* the plans the edits can produce
PlanSpace ==
  { [settings |-> a.settings, assets |-> b.assets,
     incomeStreams |-> c.incomeStreams] :
      a \in AppPlans \cup EditPlans, b \in EditPlans, c \in EditPlans }

\* the text typed into the name field
TypedNames == {BaseName}

\* a file as handleFileChange meets it: whether JSON.parse accepts the text,
\* whether the document has a scenarios array, and the document's fields
File(parses, hasList, list, active) ==
  [parses |-> parses, hasList |-> hasList, scenarios |-> list,
   activeScenarioId |-> active]

\* text that is not JSON
Unparseable == File(FALSE, FALSE, << >>, Undefined)

\* a document without a scenarios array
NoList == File(TRUE, FALSE, << >>, Undefined)

\* documents whose scenarios array is empty
EmptyLists == {File(TRUE, TRUE, << >>, a) : a \in {Undefined, Some(1)}}

\* a document whose scenario entry lacks the three records
BareFile == File(TRUE, TRUE, << BareEntry(1) >>, Undefined)

\* documents as handleExport writes them
ExportedFiles ==
  { File(TRUE, TRUE, << Scenario(1, ScenarioB50) >>, Some(1)),
    File(TRUE, TRUE, << Scenario(2, ScenarioB), Scenario(1, ScenarioB50) >>,
         Undefined) }

\* a document whose activeScenarioId is the id of none of its scenarios
StrayActive == File(TRUE, TRUE, << Scenario(1, ScenarioB50) >>, Some(2))

Files ==
  {Unparseable, NoList, BareFile, StrayActive} \cup EmptyLists
    \cup ExportedFiles

\* the ids scenarios can have: 'default' and the ids in the files
Ids ==
  {DefaultId} \cup
  UNION { {f.scenarios[k].id : k \in DOMAIN f.scenarios} : f \in Files }

\* lines 69-72: scenarios.find(s => s.id === activeScenarioId) || scenarios[0]
\* (of a list that is not empty)
ActiveScenario(list, id) ==
  IF \E k \in DOMAIN list : list[k].id = id
  THEN list[CHOOSE k \in DOMAIN list :
              /\ list[k].id = id
              /\ \A j \in DOMAIN list : list[j].id = id => k <= j]
  ELSE list[1]

\* the arguments line 181 passes to runSimulation
Arguments(s) ==
  [settings |-> s.settings, assets |-> s.assets,
   incomeStreams |-> s.incomeStreams]

\* runSimulation throws a TypeError on these arguments: settings.planningHorizon
\* (line 9), assets.map (line 13), incomeStreams.forEach (line 30, inside the
\* loop)
Throws(args) ==
  \/ args.settings = Undefined
  \/ args.assets = Undefined
  \/ /\ args.incomeStreams = Undefined
     /\ YearsToRun(args.settings[1]) > 0

\* runSimulation on the plans of the application, tabulated: the function
\* reads nothing but its arguments and the calendar year
SimCache ==
  [inp \in PlanSpace |->
     RunSimulation(inp.settings, inp.assets, inp.incomeStreams, FirstYear)]

\* line 181: the call of runSimulation
Simulate(st, as, streams, year) ==
  LET inp == [settings |-> st, assets |-> as, incomeStreams |-> streams]
  IN  IF year = FirstYear /\ inp \in PlanSpace
      THEN SimCache[inp]
      ELSE RunSimulation(st, as, streams, year)

\* lines 69-72, 179-182: what a render does with the state it is given.
\* With an empty list activeScenario is undefined and reading its settings
\* throws before runSimulation is called; otherwise runSimulation is called
\* and its result kept, unless it throws.
Render(list, id, year, prev) ==
  IF list = << >>
  THEN [crashed |-> TRUE, simulated |-> prev.simulated,
        simulationResult |-> prev.simulationResult]
  ELSE LET args == Arguments(ActiveScenario(list, id))
       IN  IF Throws(args)
           THEN [crashed |-> TRUE, simulated |-> args,
                 simulationResult |-> prev.simulationResult]
           ELSE [crashed |-> FALSE, simulated |-> args,
                 simulationResult |->
                   Simulate(args.settings[1], args.assets[1],
                            args.incomeStreams[1], year)]

\* calculations.ts lines 140-146: filter and map build new arrays, the result that was passed
\* in is only read
ResultAfterSummary(st, result) == result

\* the answers of the remote model: a text, no text, a failure
Responses ==
  { [ok |-> TRUE, text |-> "model text"],
    [ok |-> TRUE, text |-> ""],
    [ok |-> FALSE, text |-> ""] }

UnableText == "Unable to generate analysis."

ErrorText ==
  "An error occurred while generating the analysis. Please try again."

\* lines 172-186 without the catch: a failure of the call rejects the promise
AnalysisOutcome_uncaught(response) ==
  IF response.ok
  THEN [resolved |-> TRUE,
        value |-> IF response.text # "" THEN response.text ELSE UnableText]
  ELSE [resolved |-> FALSE, value |-> ""]

\* lines 172-186: what the promise of analyzeRetirementPlan settles to
AnalysisOutcome(response) ==
  IF response.ok
  THEN [resolved |-> TRUE,
        value |-> IF response.text # "" THEN response.text ELSE UnableText]
  ELSE [resolved |-> TRUE, value |-> ErrorText]

NoRequest ==
  [status |-> "none", settings |-> Undefined, result |-> Undefined,
   response |-> Undefined, value |-> Undefined]

\* part_002 lines 57-76: the component as mounted, with one scenario, and
\* its first render
Mounted(inp) ==
  /\ scenarios = << Scenario(DefaultId, inp) >>
  /\ activeScenarioId = DefaultId
  /\ aiAnalysis = NULL
  /\ isAnalyzing = FALSE
  /\ simulationResult =
       RunSimulation(inp.settings, inp.assets, inp.incomeStreams, FirstYear)
  /\ simulated = Arguments(Scenario(DefaultId, inp))
  /\ crashed = FALSE
  /\ alerted = ""
  /\ request = NoRequest

InitFrom(inputs, plans) ==
  \E inp \in inputs, plan \in plans :
    /\ calendarYear = FirstYear
    /\ settings = inp.settings
    /\ assets = [k \in DOMAIN inp.assets |-> k]
    /\ incomeStreams = inp.incomeStreams
    /\ heap = [r \in Refs |->
                 IF r \in DOMAIN inp.assets THEN inp.assets[r] ELSE FreeCell]
    /\ before = inp
    /\ pc = "idle"
    /\ startYear = 0
    /\ yearsToRun = 0
    /\ i = 0
    /\ currentAssets = <<>>
    /\ portfolioBalance = Zero
    /\ depletionAge = NULL
    /\ data = <<>>
    /\ yr = NoYear
    /\ results = <<>>
    /\ Mounted(plan)

\* runSimulation is called on every input; the component shows one plan
Init == InitFrom(Inputs, {ScenarioB})

\* The calendar year changes between two calls (runSimulation reads the clock
\* once, on entry, and is synchronous; a change after the last call is not
\* observed).
Tick ==
  /\ pc = "done"
  /\ Len(results) < MaxRuns
  /\ calendarYear < FirstYear + MaxTicks
  /\ calendarYear' = calendarYear + 1
  /\ UNCHANGED <<settings, assets, incomeStreams, heap, before, pc,
                 startYear, yearsToRun, i, currentAssets, portfolioBalance,
                 depletionAge, data, yr, results>>
  /\ UNCHANGED appVars

\* lines 3-15: the caller invokes runSimulation on its (unmodified) inputs
Call ==
  /\ pc \in {"idle", "done"}
  /\ Len(results) < MaxRuns
  /\ pc' = "loop"
  /\ before' = CallerView
  /\ startYear' = calendarYear
  /\ yearsToRun' = YearsToRun(settings)
  /\ data' = <<>>
  /\ \E copies \in {CopyRefs(assets)} :
       \E h \in {Allocate(heap, assets, copies)} :
         /\ currentAssets' = copies
         /\ heap' = h
         /\ portfolioBalance' = TotalBalance(h, copies)
  /\ depletionAge' = NULL
  /\ i' = 0
  /\ yr' = NoYear
  /\ UNCHANGED <<calendarYear, settings, assets, incomeStreams, results>>
  /\ UNCHANGED appVars

\* lines 17-118: one iteration of the year loop
LoopStep ==
  /\ pc = "loop"
  /\ LoopCond(i, yearsToRun)
  /\ LET currentAge == settings.currentAge + i
         currentYear == CurrentYear(startYear, i)
         isRetired == IsRetired(settings, currentAge)
     IN
     \E inflationMultiplier \in {InflationMultiplier(settings, i)},
        requiredAnnualExpense \in {RequiredAnnualExpense(settings, i)},
        income \in {ProcessStreams(incomeStreams, Len(incomeStreams),
                                   currentAge, i)} :
     \E grown \in {GrowAssets(heap, currentAssets, isRetired,
                              inflationMultiplier)},
        withdrawalNeeded \in {WithdrawalNeeded(isRetired, requiredAnnualExpense,
                                               income.totalFixedIncome)} :
     \E drawn \in {Drawdown(grown, currentAssets, withdrawalNeeded,
                            depletionAge, currentAge)} :
     \E balance \in {TotalBalance(drawn.heap, currentAssets)} :
         /\ heap' = drawn.heap
         /\ depletionAge' = drawn.depletionAge
         /\ portfolioBalance' = balance
         /\ data' = Append(data,
              YearRecord(currentAge, currentYear, requiredAnnualExpense,
                         income, drawn, balance))
         /\ yr' = [currentAge |-> currentAge,
                   isRetired |-> isRetired,
                   requiredAnnualExpense |-> requiredAnnualExpense,
                   totalFixedIncome |-> income.totalFixedIncome,
                   withdrawalNeeded |-> withdrawalNeeded,
                   totalAvailable |-> TotalBalance(grown, currentAssets),
                   opening |-> [k \in DOMAIN currentAssets |->
                                  heap[currentAssets[k]].balance],
                   available |-> [k \in DOMAIN currentAssets |->
                                    grown[currentAssets[k]].balance],
                   actualWithdrawal |-> drawn.actualWithdrawal,
                   shortage |-> drawn.shortage,
                   depletionBefore |-> depletionAge]
  /\ i' = i + 1
  /\ UNCHANGED <<calendarYear, settings, assets, incomeStreams, before, pc,
                 startYear, yearsToRun, currentAssets, results>>
  /\ UNCHANGED appVars

\* lines 17, 120-125: the loop is over, the result goes to the caller
Return ==
  /\ pc = "loop"
  /\ ~LoopCond(i, yearsToRun)
  /\ pc' = "done"
  /\ results' = Append(results,
       [success |-> Success(depletionAge),
        depletionAge |-> depletionAge,
        finalBalance |-> FinalBalance(portfolioBalance),
        data |-> data])
  /\ UNCHANGED <<calendarYear, settings, assets, incomeStreams, heap, before,
                 startYear, yearsToRun, i, currentAssets, portfolioBalance,
                 depletionAge, data, yr>>
  /\ UNCHANGED appVars

Next == Tick \/ Call \/ LoopStep \/ Return

Spec == Init /\ [][Next]_vars

\* runSimulation is synchronous: once called it runs to its return
FairSpec ==
  InitFrom(TermInputs, {ScenarioB}) /\ [][Next]_vars /\ WF_vars(LoopStep) /\ WF_vars(Return)

(***************************************************************************)
(* The App component: one action per handler.  A handler runs to its end   *)
(* and the render that follows it is part of the action.                   *)
(***************************************************************************)
\* lines 69-72, 179-182: the render after a state change
Rerender(list, id) ==
  \E r \in {Render(list, id, calendarYear,
                   [simulated |-> simulated,
                    simulationResult |-> simulationResult])} :
    /\ crashed' = r.crashed
    /\ simulated' = r.simulated
    /\ simulationResult' = r.simulationResult

\* lines 107-117: clone the active scenario under a new id and make it active
HandleAddScenario ==
  /\ ~crashed
  /\ Len(scenarios) < MaxScenarios
  /\ Copies(ActiveScenario(scenarios, activeScenarioId).name) < MaxCopies
  /\ \E newId \in Ids \ {scenarios[k].id : k \in DOMAIN scenarios} :
       LET activeScenario == ActiveScenario(scenarios, activeScenarioId)
           newScenario ==
             [JsonClone(activeScenario, Objects("clone", newId))
                EXCEPT !.id = newId, !.name = CopyName(activeScenario.name)]
       IN  /\ scenarios' = Append(scenarios, newScenario)
           /\ activeScenarioId' = newId
           /\ Rerender(Append(scenarios, newScenario), newId)
  /\ alerted' = ""
  /\ UNCHANGED <<aiAnalysis, isAnalyzing, request>>
  /\ UNCHANGED engineVars

\* lines 119-129, called with the active id (line 372)
HandleDeleteScenario ==
  /\ ~crashed
  /\ IF Len(scenarios) <= 1
     THEN /\ alerted' = "You must have at least one scenario."
          /\ UNCHANGED <<scenarios, activeScenarioId, simulationResult,
                         simulated, crashed>>
     ELSE LET newScenarios ==
                SelectSeq(scenarios, LAMBDA sc : sc.id # activeScenarioId)
              newId == IF newScenarios = << >>
                       THEN activeScenarioId
                       ELSE newScenarios[1].id
          IN  /\ alerted' = ""
              /\ scenarios' = newScenarios
              /\ activeScenarioId' = newId
              /\ Rerender(newScenarios, newId)
  /\ UNCHANGED <<aiAnalysis, isAnalyzing, request>>
  /\ UNCHANGED engineVars

\* lines 85-91
SwitchScenario(direction) ==
  /\ ~crashed
  /\ LET found == {k \in DOMAIN scenarios : scenarios[k].id = activeScenarioId}
         idx == IF found = {}
                THEN -1
                ELSE (CHOOSE k \in found : \A j \in found : k <= j) - 1
         moved == IF direction = "next" THEN idx + 1 ELSE idx - 1
         newIdx == IF moved < 0
                   THEN Len(scenarios) - 1
                   ELSE IF moved >= Len(scenarios) THEN 0 ELSE moved
     IN  /\ activeScenarioId' = scenarios[newIdx + 1].id
         /\ Rerender(scenarios, scenarios[newIdx + 1].id)
  /\ alerted' = ""
  /\ UNCHANGED <<scenarios, aiAnalysis, isAnalyzing, request>>
  /\ UNCHANGED engineVars

\* line 321: the scenario picked in the drop-down list, whose options are the
\* scenarios of the list
SelectScenario(id) ==
  /\ ~crashed
  /\ \E k \in DOMAIN scenarios : scenarios[k].id = id
  /\ activeScenarioId' = id
  /\ Rerender(scenarios, id)
  /\ alerted' = ""
  /\ UNCHANGED <<scenarios, aiAnalysis, isAnalyzing, request>>
  /\ UNCHANGED engineVars

\* the records the edits replace
Fields == {"settings"}

\* the records the scenario operations edit: the settings object (lines
\* 260-262) and the asset array (lines 213-233; the income helpers of lines
\* 235-258 are the same code on the incomeStreams key)
InputFields == {"settings", "assets"}

\* lines 79-83, called by the helpers of lines 212-262 and by the name field
\* (line 345) with updates = { [field]: value }
UpdateActiveScenario(field, value) ==
  /\ ~crashed
  /\ \E edited \in {Updated(scenarios, activeScenarioId, field, value)} :
       /\ scenarios' = edited
       /\ Rerender(edited, activeScenarioId)
  /\ alerted' = ""
  /\ UNCHANGED <<activeScenarioId, aiAnalysis, isAnalyzing, request>>
  /\ UNCHANGED engineVars

\* lines 151-177: the onload callback of the file reader
HandleFileChange(file) ==
  /\ ~crashed
  /\ IF ~file.parses
     THEN /\ alerted' = "Failed to parse file."
          /\ UNCHANGED <<scenarios, activeScenarioId, aiAnalysis,
                         simulationResult, simulated, crashed>>
     ELSE IF ~file.hasList
     THEN /\ alerted' = "Invalid file format."
          /\ UNCHANGED <<scenarios, activeScenarioId, aiAnalysis,
                         simulationResult, simulated, crashed>>
     ELSE IF file.activeScenarioId = Undefined /\ file.scenarios = << >>
     THEN \* setScenarios([]) is done when data.scenarios[0].id throws
          /\ alerted' = "Failed to parse file."
          /\ scenarios' = Parsed(file.scenarios)
          /\ Rerender(Parsed(file.scenarios), activeScenarioId)
          /\ UNCHANGED <<activeScenarioId, aiAnalysis>>
     ELSE LET newId == IF file.activeScenarioId # Undefined
                       THEN file.activeScenarioId[1]
                       ELSE file.scenarios[1].id
          IN  /\ alerted' = ""
              /\ scenarios' = Parsed(file.scenarios)
              /\ activeScenarioId' = newId
              /\ aiAnalysis' = NULL
              /\ Rerender(Parsed(file.scenarios), newId)
  /\ UNCHANGED <<isAnalyzing, request>>
  /\ UNCHANGED engineVars

\* lines 204-207 and calculations.ts lines 133-173: handleAnalyze up to the
\* await, the request to the remote model being sent
HandleAnalyze ==
  /\ ~crashed
  /\ ~isAnalyzing
  /\ isAnalyzing' = TRUE
  /\ aiAnalysis' = NULL
  /\ LET st == ActiveScenario(scenarios, activeScenarioId).settings[1]
     IN  /\ request' = [status |-> "pending",
                        settings |-> Some(st),
                        result |-> Some(simulationResult),
                        response |-> Undefined,
                        value |-> Undefined]
         /\ simulationResult' = ResultAfterSummary(st, simulationResult)
  /\ alerted' = ""
  /\ UNCHANGED <<scenarios, activeScenarioId, simulated, crashed>>
  /\ UNCHANGED engineVars

\* the remote model answers, or the call fails
Respond(response) ==
  /\ request.status = "pending"
  /\ request' = [request EXCEPT !.status = "settled",
                                !.response = Some(response)]
  /\ UNCHANGED <<scenarios, activeScenarioId, aiAnalysis, isAnalyzing,
                 simulationResult, simulated, crashed, alerted>>
  /\ UNCHANGED engineVars

\* calculations.ts lines 181-185 and part_002 lines 207-209: the two
\* functions go on after their await
Resume ==
  /\ request.status = "settled"
  /\ \E outcome \in {AnalysisOutcome(request.response[1])} :
       IF outcome.resolved
       THEN /\ request' = [request EXCEPT !.status = "done",
                                          !.value = Some(outcome.value)]
            /\ aiAnalysis' = Some(outcome.value)
            /\ isAnalyzing' = FALSE
       ELSE /\ request' = [request EXCEPT !.status = "faulted"]
            /\ UNCHANGED <<aiAnalysis, isAnalyzing>>
  /\ UNCHANGED <<scenarios, activeScenarioId, simulationResult, simulated,
                 crashed, alerted>>
  /\ UNCHANGED engineVars

AppNext ==
  \/ HandleAddScenario
  \/ HandleDeleteScenario
  \/ \E direction \in {"prev", "next"} : SwitchScenario(direction)
  \/ \E field \in Fields, inp \in AppPlans :
       UpdateActiveScenario(field, Some(inp[field]))
  \/ \E file \in Files : HandleFileChange(file)
  \/ HandleAnalyze
  \/ \E response \in Responses : Respond(response)
  \/ Resume

\* the component is mounted on either plan; runSimulation is not running
AppInit == InitFrom({ScenarioB}, AppPlans)

AppSpec == AppInit /\ [][AppNext]_vars

\* a settled promise's continuations are run by the event loop; nothing
\* obliges the remote call to settle
AppFairSpec == AppInit /\ [][AppNext]_vars /\ WF_vars(Resume)

\* the scenario operations: clone, delete, switch, select, edit, rename,
\* import
ScenarioNext ==
  \/ HandleAddScenario
  \/ HandleDeleteScenario
  \/ \E direction \in {"prev", "next"} : SwitchScenario(direction)
  \/ \E id \in Ids : SelectScenario(id)
  \/ \E field \in InputFields, inp \in EditPlans :
       UpdateActiveScenario(field, Some(inp[field]))
  \/ \E name \in TypedNames : UpdateActiveScenario("name", Some(name))
  \/ \E file \in Files : HandleFileChange(file)

ScenarioInit == InitFrom({ScenarioB}, {ScenarioB})

ScenarioSpec == ScenarioInit /\ [][ScenarioNext]_vars

TypeOK ==
  /\ pc \in {"idle", "loop", "done"}
  /\ i \in 0..(MaxSpan + 2)
  /\ Len(data) = i
  /\ Len(results) <= MaxRuns

(***************************************************************************)
(* Properties of runSimulation.                                            *)
(***************************************************************************)
\* the latest loop iteration's locals are in yr and its record is data[i]
InYear == pc \in {"loop", "done"} /\ i > 0

\* the result of the call that has just returned
Returned == pc = "done" /\ Len(results) > 0

\* the loop taken step by step returns what the call taken as a whole returns
StepsAgreeWithCall ==
  Returned =>
    results[Len(results)] =
      RunSimulation(settings, before.assets, incomeStreams, startYear)

LastResult == results[Len(results)]

\* C1: when planningHorizon >= currentAge, a returned result has exactly
\* planningHorizon - currentAge + 1 entries, the first has age currentAge and
\* every following entry's age is the previous entry's age plus 1.
C1_DataLengthAndAges ==
  \A r \in DOMAIN results :
    settings.planningHorizon >= settings.currentAge =>
      LET d == results[r].data
      IN  /\ Len(d) = settings.planningHorizon - settings.currentAge + 1
          /\ d[1].age = settings.currentAge
          /\ \A k \in 2..Len(d) : d[k].age = d[k - 1].age + 1
          /\ d[Len(d)].age = settings.planningHorizon

C1_Witness ==
  /\ Returned
  /\ settings.planningHorizon >= settings.currentAge + 2
  /\ Len(LastResult.data) = 3

\* the indices of the entries of d whose shortfall field is positive
ShortfallYears(d) == {k \in DOMAIN d : d[k].shortfall > 0}

\* C2: a returned non-null depletionAge is the age of the first entry of data
\* whose shortfall field is > 0, and a result with such an entry has a non-null
\* depletionAge.
C2_DepletionIsFirstShortfall ==
  \A r \in DOMAIN results :
    LET d == results[r].data
        short == ShortfallYears(d)
    IN  /\ results[r].depletionAge # NULL =>
             /\ short # {}
             /\ \E k \in short :
                  /\ \A j \in short : k <= j
                  /\ results[r].depletionAge = Num(d[k].age)
        /\ short # {} => results[r].depletionAge # NULL

\* C3: within one run, once depletionAge holds an age no later year changes it.
C3_DepletionSticky ==
  [][pc = "loop" /\ depletionAge # NULL => depletionAge' = depletionAge]_vars

\* C4: the returned success flag is true exactly when the returned
\* depletionAge is null.
C4_SuccessIffNoDepletion ==
  \A r \in DOMAIN results :
    results[r].success <=> (results[r].depletionAge = NULL)

C4_Witness ==
  /\ Returned
  /\ LastResult.depletionAge = Num(0)
  /\ ~LastResult.success

\* C5: from the call to its return the caller's settings, asset objects and
\* income streams keep the values they had when the call was made; the
\* balance updates happen on the working copies.
C5_InputsNotMutated ==
  pc \in {"loop", "done"} => CallerView = before

C5_Witness ==
  /\ Returned
  /\ \E k \in DOMAIN assets :
       heap[currentAssets[k]].balance # heap[assets[k]].balance

\* a result without the calendar-year labels
StripYear(res) ==
  [res EXCEPT !.data =
     [k \in DOMAIN res.data |->
        [age |-> res.data[k].age,
         expenses |-> res.data[k].expenses,
         totalIncome |-> res.data[k].totalIncome,
         portfolioBalance |-> res.data[k].portfolioBalance,
         withdrawals |-> res.data[k].withdrawals,
         shortfall |-> res.data[k].shortfall,
         breakdown |-> res.data[k].breakdown]]]

\* C6 as stated: two calls on identical, unmodified inputs return identical
\* results, every field of every YearData entry included.
C6_IdenticalResults ==
  Len(results) = 2 => results[1] = results[2]

\* C6 amended: two calls on identical, unmodified inputs return results that
\* agree in success, depletionAge, finalBalance and every YearData field other
\* than year; the year of entry k is the calendar year at the call plus k - 1,
\* so the results are identical when both calls are made in the same calendar
\* year.
C6_IdenticalUpToYear ==
  Len(results) = 2 =>
    /\ StripYear(results[1]) = StripYear(results[2])
    /\ \A k \in DOMAIN results[1].data :
         /\ results[1].data[k].year = results[1].data[1].year + (k - 1)
         /\ results[2].data[k].year = results[2].data[1].year + (k - 1)
    /\ (results[1].data # <<>> /\
        results[1].data[1].year = results[2].data[1].year) =>
          results[1] = results[2]

C6_Witness ==
  /\ Len(results) = 2
  /\ Len(results[1].data) >= 2
  /\ results[1].data[1].year # results[2].data[1].year
  /\ \E k \in DOMAIN assets :
       heap[currentAssets[k]].balance # heap[assets[k]].balance

\* afterA * beforeB = afterB * beforeA, evaluated on the quotients when both
\* divisors are non-zero (the products leave TLC's integer range)
CrossEqual(afterA, beforeA, afterB, beforeB) ==
  IF beforeA # Zero /\ beforeB # Zero
  THEN RDiv[afterA, beforeA] = RDiv[afterB, beforeB]
  ELSE RMul[afterA, beforeB] = RMul[afterB, beforeA]

\* C7: in a year with 0 < withdrawalNeeded <= totalAvailable, for every pair
\* of assets a, b:  after[a] * available[b] = after[b] * available[a], where
\* available is the balance after the year's growth and contribution.
C7_ProportionsPreserved ==
  (InYear /\ RGt[yr.withdrawalNeeded, Zero]
          /\ RLe[yr.withdrawalNeeded, yr.totalAvailable]) =>
    \A a, b \in DOMAIN currentAssets :
      CrossEqual(heap[currentAssets[a]].balance, yr.available[a],
                 heap[currentAssets[b]].balance, yr.available[b])

C7_Witness ==
  /\ InYear
  /\ RGt[yr.withdrawalNeeded, Zero]
  /\ RLt[yr.withdrawalNeeded, yr.totalAvailable]
  /\ \E a, b \in DOMAIN currentAssets :
       /\ yr.available[a] # yr.available[b]
       /\ RGt[yr.available[a], Zero]
       /\ RGt[yr.available[b], Zero]

\* C8: every breakdown has the key "Portfolio Withdrawals", and has the key
\* "Income Shortage" only in a year in which a shortfall occurred.
C8_BreakdownKeys ==
  InYear =>
    /\ HasKey(data[i].breakdown, "Portfolio Withdrawals")
    /\ HasKey(data[i].breakdown, "Income Shortage") =>
         RGt[yr.shortage, Zero]

\* C9: every call of runSimulation returns; when planningHorizon < currentAge
\* the returned data is empty, success is true, depletionAge is null and
\* finalBalance is the sum of the input asset balances.
C9_TerminatesAndDegenerate ==
  /\ [](Returned /\ settings.planningHorizon < settings.currentAge =>
          /\ LastResult.data = <<>>
          /\ LastResult.success
          /\ LastResult.depletionAge = NULL
          /\ LastResult.finalBalance = TotalBalance(heap, assets))
  /\ (pc = "loop" ~> pc = "done")

C9_Witness ==
  /\ Returned
  /\ settings.planningHorizon < settings.currentAge
  /\ Len(assets) = MaxAssets
  /\ LastResult.finalBalance # Zero

\* C10: in a retired year whose total fixed income is at least the required
\* expense, withdrawals and shortfall are 0, depletionAge is not set by that
\* year and every asset ends the year with its balance after growth; every
\* year's expense is the inflated spending target whatever earlier surpluses
\* were; Scenario A returns two years with withdrawals 0, success and
\* finalBalance 100000.
C10_SurplusLeavesAssetsAlone ==
  /\ (InYear /\ yr.isRetired
             /\ RGe[yr.totalFixedIncome, yr.requiredAnnualExpense]) =>
       /\ yr.actualWithdrawal = Zero
       /\ yr.shortage = Zero
       /\ data[i].withdrawals = 0
       /\ data[i].shortfall = 0
       /\ depletionAge = yr.depletionBefore
       /\ \A k \in DOMAIN currentAssets :
            heap[currentAssets[k]].balance = yr.available[k]
  /\ \A k \in DOMAIN data :
       data[k].expenses = RRound[RequiredAnnualExpense(settings, k - 1)]
  /\ (Returned /\ before = ScenarioA) =>
       /\ Len(LastResult.data) = 2
       /\ LastResult.data[1].withdrawals = 0
       /\ LastResult.data[2].withdrawals = 0
       /\ LastResult.success
       /\ LastResult.finalBalance = RInt[100000]

C10_Witness ==
  /\ InYear
  /\ i >= 2
  /\ yr.isRetired
  /\ RGt[yr.totalFixedIncome, yr.requiredAnnualExpense]
  /\ RGt[yr.totalAvailable, Zero]

\* C11: in a pre-retirement year every asset ends the year at
\*   old + old * returnRate / 100 + contribution * inflationMultiplier
\* (growth is computed on the balance before the contribution); Scenario C has
\* balance 10000 after its first year and 20500 after its second.
C11_GrowthBeforeContribution ==
  /\ (InYear /\ ~yr.isRetired) =>
       \A k \in DOMAIN currentAssets :
         LET asset == heap[currentAssets[k]]
             old == yr.opening[k]
             multiplier ==
               RPow[RAdd[RInt[1], RDiv[settings.inflationRate, RInt[100]]],
                    i - 1]
         IN  asset.balance =
               RAdd[RAdd[old, RDiv[RMul[old, asset.returnRate], RInt[100]]],
                    RMul[asset.contribution, multiplier]]
  /\ (InYear /\ before = ScenarioC) =>
       /\ data[1].portfolioBalance = 10000
       /\ i = 1 => portfolioBalance = RInt[10000]
       /\ i >= 2 => data[2].portfolioBalance = 20500
       /\ i = 2 => portfolioBalance = RInt[20500]

C11_Witness ==
  /\ InYear
  /\ ~yr.isRetired
  /\ i = 2
  /\ settings.inflationRate # Zero
  /\ \E k \in DOMAIN currentAssets :
       /\ yr.opening[k] # Zero
       /\ heap[currentAssets[k]].returnRate # Zero
       /\ heap[currentAssets[k]].contribution # Zero

\* the financial fields of a result's year record k
Financial(res, k) ==
  << res.data[k].age, res.data[k].expenses, res.data[k].totalIncome,
     res.data[k].portfolioBalance, res.data[k].withdrawals,
     res.data[k].shortfall, res.data[k].breakdown >>

\* C12: the calendar year does not influence the financial results: any two
\* results of calls on the same inputs, whatever the calendar years of the
\* calls, have the same success, depletionAge and finalBalance and, for every
\* index, the same age, expenses, totalIncome, portfolioBalance, withdrawals,
\* shortfall and breakdown; the year of record k of a call is the calendar
\* year when the call started plus k - 1.
C12_CalendarYearOnlyLabels ==
  /\ \A a, b \in DOMAIN results :
       /\ results[a].success = results[b].success
       /\ results[a].depletionAge = results[b].depletionAge
       /\ results[a].finalBalance = results[b].finalBalance
       /\ Len(results[a].data) = Len(results[b].data)
       /\ \A k \in DOMAIN results[a].data :
            Financial(results[a], k) = Financial(results[b], k)
  /\ pc = "loop" => startYear = calendarYear
  /\ pc \in {"loop", "done"} =>
       \A k \in DOMAIN data : data[k].year = startYear + (k - 1)
  /\ Returned => LastResult.data = data

C12_Witness ==
  /\ Returned
  /\ Len(results) = 2
  /\ startYear # FirstYear
  /\ Len(data) >= 2
  /\ results[1].data[2].year # results[2].data[2].year
  /\ results[1].depletionAge # NULL
  /\ results[1].data[2].breakdown # results[1].data[1].breakdown

\* C16: in a retired year with 0 < withdrawalNeeded <= totalAvailable the
\* withdrawal is exactly withdrawalNeeded, the shortage is 0, depletionAge is
\* not set by that year and the balances sum to totalAvailable minus
\* withdrawalNeeded afterwards (zero, without depletion, when the two are
\* equal).
C16_CoveredNeed ==
  (InYear /\ yr.isRetired /\ RGt[yr.withdrawalNeeded, Zero]
          /\ RLe[yr.withdrawalNeeded, yr.totalAvailable]) =>
    /\ yr.actualWithdrawal = yr.withdrawalNeeded
    /\ yr.shortage = Zero
    /\ data[i].shortfall = 0
    /\ depletionAge = yr.depletionBefore
    /\ TotalBalance(heap, currentAssets) =
         RSub[yr.totalAvailable, yr.withdrawalNeeded]
    /\ portfolioBalance = RSub[yr.totalAvailable, yr.withdrawalNeeded]

C16_Witness ==
  /\ InYear
  /\ yr.isRetired
  /\ RGt[yr.withdrawalNeeded, Zero]
  /\ yr.withdrawalNeeded = yr.totalAvailable
  /\ portfolioBalance = Zero
  /\ depletionAge = NULL

\* C17: in a retired year with 0 < totalAvailable < withdrawalNeeded the
\* withdrawal is totalAvailable, every balance becomes exactly 0, the
\* shortage is withdrawalNeeded minus totalAvailable, and depletionAge is set
\* to that year's age if it was not set before; Scenario B's first year
\* withdraws 1000, has shortfall 1400 and sets depletionAge to 65.
C17_Drained ==
  /\ (InYear /\ yr.isRetired /\ RGt[yr.totalAvailable, Zero]
             /\ RLt[yr.totalAvailable, yr.withdrawalNeeded]) =>
       /\ yr.actualWithdrawal = yr.totalAvailable
       /\ \A k \in DOMAIN currentAssets :
            heap[currentAssets[k]].balance = Zero
       /\ yr.shortage = RSub[yr.withdrawalNeeded, yr.totalAvailable]
       /\ yr.depletionBefore = NULL => depletionAge = Num(yr.currentAge)
       /\ depletionAge # NULL
  /\ (InYear /\ before = ScenarioB) =>
       /\ data[1].withdrawals = 1000
       /\ data[1].shortfall = 1400
       /\ depletionAge = Num(65)

C17_Witness ==
  /\ InYear
  /\ yr.isRetired
  /\ RGt[yr.totalAvailable, Zero]
  /\ RLt[yr.totalAvailable, yr.withdrawalNeeded]
  /\ yr.depletionBefore = NULL
  /\ Len(currentAssets) = 2
  /\ \A k \in DOMAIN currentAssets : yr.available[k] # Zero

\* C18: in a retired year with withdrawalNeeded > 0 and totalAvailable <= 0
\* (an empty asset list included) the withdrawal is 0, the whole need is the
\* shortage, the drawdown changes no balance, and depletionAge is set to that
\* year's age if it was not set before; Scenario B's second year withdraws 0,
\* has shortfall 2400 and its balance stays 0.
C18_NothingToDraw ==
  /\ (InYear /\ yr.isRetired /\ RGt[yr.withdrawalNeeded, Zero]
             /\ RLe[yr.totalAvailable, Zero]) =>
       /\ yr.actualWithdrawal = Zero
       /\ data[i].withdrawals = 0
       /\ yr.shortage = yr.withdrawalNeeded
       /\ \A k \in DOMAIN currentAssets :
            heap[currentAssets[k]].balance = yr.available[k]
       /\ yr.depletionBefore = NULL => depletionAge = Num(yr.currentAge)
       /\ depletionAge # NULL
  /\ (InYear /\ before = ScenarioB /\ i = 2) =>
       /\ data[2].withdrawals = 0
       /\ data[2].shortfall = 2400
       /\ data[2].portfolioBalance = 0
       /\ portfolioBalance = Zero

C18_Witness ==
  /\ InYear
  /\ yr.isRetired
  /\ RGt[yr.withdrawalNeeded, Zero]
  /\ yr.totalAvailable = Zero
  /\ currentAssets # <<>>
  /\ yr.depletionBefore # NULL

\* C19: a year with age < retirementAge has withdrawals 0 and shortfall 0, no
\* "Income Shortage" entry in its breakdown and does not set depletionAge,
\* whatever the expense, income and balances are; in a retired year the need
\* is max(requiredAnnualExpense - totalFixedIncome, 0).
C19_NeedOnlyWhenRetired ==
  /\ (InYear /\ yr.currentAge < settings.retirementAge) =>
       /\ data[i].withdrawals = 0
       /\ data[i].shortfall = 0
       /\ ~HasKey(data[i].breakdown, "Income Shortage")
       /\ depletionAge = yr.depletionBefore
  /\ (InYear /\ yr.currentAge >= settings.retirementAge) =>
       yr.withdrawalNeeded =
         (IF RGt[RSub[yr.requiredAnnualExpense, yr.totalFixedIncome], Zero]
          THEN RSub[yr.requiredAnnualExpense, yr.totalFixedIncome]
          ELSE Zero)

\* C20: a contribution is added only in a year with age < retirementAge and
\* is contribution * (1 + inflationRate / 100) ^ yearIndex; in a retired year
\* a balance changes by growth and withdrawal only.
C20_ContributionsStopAtRetirement ==
  InYear =>
    /\ \A k \in DOMAIN currentAssets :
         LET asset == heap[currentAssets[k]]
             grown == RAdd[yr.opening[k],
                           RDiv[RMul[yr.opening[k], asset.returnRate],
                                RInt[100]]]
         IN  RSub[yr.available[k], grown] =
               (IF yr.currentAge < settings.retirementAge
                THEN RMul[asset.contribution,
                          RPow[RAdd[RInt[1],
                                    RDiv[settings.inflationRate, RInt[100]]],
                               i - 1]]
                ELSE Zero)
    /\ yr.currentAge >= settings.retirementAge =>
         TotalBalance(heap, currentAssets) =
           RSub[yr.totalAvailable, yr.actualWithdrawal]

C20_Witness ==
  /\ InYear
  /\ i >= 2
  /\ yr.currentAge = settings.retirementAge
  /\ settings.inflationRate # Zero
  /\ \E k \in DOMAIN currentAssets :
       /\ heap[currentAssets[k]].contribution # Zero
       /\ yr.opening[k] # Zero

\* the year index of the latest loop iteration
YearIndex == i - 1

\* stream k of the call is inside its age window at the given age
InWindow(k, age) ==
  incomeStreams[k].startAge <= age /\ age <= incomeStreams[k].endAge

\* monthlyAmount * 12 * (1 + growthRate / 100) ^ index for stream k
AmountAtIndex(k, index) ==
  RMul[RMul[incomeStreams[k].monthlyAmount, RInt[12]],
       RPow[RAdd[RInt[1], RDiv[incomeStreams[k].growthRate, RInt[100]]],
            index]]

\* the amounts at the given index of the streams among the first n that are
\* inside their age window, added up
RECURSIVE WindowIncome(_, _, _)
WindowIncome(n, age, index) ==
  IF n = 0
  THEN Zero
  ELSE RAdd[WindowIncome(n - 1, age, index),
            IF InWindow(n, age) THEN AmountAtIndex(n, index) ELSE Zero]

\* C21: a stream adds its amount to the year's total fixed income and has its
\* name in the year's breakdown exactly when startAge <= age <= endAge; in
\* every other year it adds nothing and its name is not in the breakdown.
C21_ActiveWindow ==
  InYear =>
    /\ yr.totalFixedIncome =
         WindowIncome(Len(incomeStreams), yr.currentAge, YearIndex)
    /\ \A k \in DOMAIN incomeStreams :
         InWindow(k, yr.currentAge) <=>
           HasKey(data[i].breakdown, incomeStreams[k].name)

\* C22: the annual amount of an active stream in the year with index i is
\* monthlyAmount * 12 * (1 + growthRate / 100) ^ i, the index counting from
\* the first simulated year; the annuity that starts at index 1 is paid with
\* one year of growth in its first active year (18, not 12).
C22_GrowthFromSimulationStart ==
  InYear =>
    /\ yr.totalFixedIncome =
         WindowIncome(Len(incomeStreams), yr.currentAge, YearIndex)
    /\ (Len(incomeStreams) = 1 /\ InWindow(1, yr.currentAge)) =>
         yr.totalFixedIncome = AmountAtIndex(1, YearIndex)
    /\ (before \in DeferredAnnuity /\ i = 2) =>
         /\ yr.totalFixedIncome = RInt[18]
         /\ data[2].breakdown["Annuity"] = 18

C22_Witness ==
  /\ InYear
  /\ i = 2
  /\ Len(incomeStreams) = 1
  /\ incomeStreams[1].startAge = yr.currentAge
  /\ incomeStreams[1].startAge > settings.currentAge
  /\ incomeStreams[1].growthRate # Zero
  /\ yr.totalFixedIncome = RInt[18]

\* the entries of map m under the given keys, added up
RECURSIVE SumEntries(_, _)
SumEntries(m, keys) ==
  IF keys = {}
  THEN 0
  ELSE LET key == CHOOSE x \in keys : TRUE
       IN  m[key] + SumEntries(m, keys \ {key})

\* C23: for every list of streams (names repeated or equal to the synthetic
\* labels included) the breakdown entry under the name of a stream active in
\* the year is that stream's own rounded annual amount, and the entries other
\* than "Income Shortage" add up to the year's totalIncome (up to the
\* rounding of each entry).
C23_BreakdownPerStream ==
  InYear =>
    /\ \A k \in DOMAIN incomeStreams :
         InWindow(k, yr.currentAge) =>
           /\ HasKey(data[i].breakdown, incomeStreams[k].name)
           /\ data[i].breakdown[incomeStreams[k].name] =
                RRound[AmountAtIndex(k, YearIndex)]
    /\ LET keys == (DOMAIN data[i].breakdown) \ {"Income Shortage"}
           diff == SumEntries(data[i].breakdown, keys) - data[i].totalIncome
       IN  2 * Abs[diff] <= Cardinality(keys) + 1

\* the balance asset k has at the end of the year, computed without rounding
\* from the balance it had at the start of the year
ExactClosing(k) ==
  LET asset == heap[currentAssets[k]]
      grown == RAdd[yr.opening[k],
                    RDiv[RMul[yr.opening[k], asset.returnRate], RInt[100]]]
      paid == IF yr.isRetired
              THEN grown
              ELSE RAdd[grown,
                        RMul[asset.contribution,
                             RPow[RAdd[RInt[1],
                                       RDiv[settings.inflationRate, RInt[100]]],
                                  YearIndex]]]
  IN  IF yr.actualWithdrawal = Zero
      THEN paid
      ELSE IF RGt[yr.shortage, Zero]
           THEN Zero
           ELSE RSub[paid, RDiv[RMul[yr.withdrawalNeeded, paid],
                                yr.totalAvailable]]

\* C24: rounding is applied when a YearData record is built and nowhere else:
\* every balance at the end of a year is the unrounded function of the balance
\* the year started from, the next year starts from that unrounded balance,
\* the returned finalBalance is the unrounded sum of the balances after the
\* last year, and finalBalance rounded is the portfolioBalance of the last
\* record.
C24_RoundingOnlyInRecords ==
  /\ [](InYear =>
          /\ \A k \in DOMAIN currentAssets :
               heap[currentAssets[k]].balance = ExactClosing(k)
          /\ portfolioBalance = TotalBalance(heap, currentAssets)
          /\ data[i].portfolioBalance = RRound[portfolioBalance])
  /\ [](Returned =>
          /\ LastResult.finalBalance = TotalBalance(heap, currentAssets)
          /\ LastResult.data # << >> =>
               LastResult.data[Len(LastResult.data)].portfolioBalance =
                 RRound[LastResult.finalBalance])
  /\ [][(pc = "loop" /\ i' = i + 1) =>
          \A k \in DOMAIN currentAssets :
            yr'.opening[k] = heap[currentAssets[k]].balance]_vars

C24_Witness ==
  /\ Returned
  /\ Len(data) >= 2
  /\ LastResult.finalBalance[2] # 1
  /\ \E k \in DOMAIN currentAssets : yr.opening[k][2] # 1
  /\ yr.actualWithdrawal # Zero

\* asset k started the year with a negative balance and has a positive
\* return rate
InDebt(k) ==
  /\ RLt[yr.opening[k], Zero]
  /\ RGt[heap[currentAssets[k]].returnRate, Zero]

\* C25 as stated: an asset whose balance is negative stays negative in every
\* later year when its return rate is positive, through growth, contribution
\* and drawdown alike.
C25_NegativeStaysNegative ==
  InYear =>
    \A k \in DOMAIN currentAssets :
      InDebt(k) => RLt[heap[currentAssets[k]].balance, Zero]

\* C25 amended: a negative balance with a positive return rate is more
\* negative after the growth step; in a year in which no positive contribution
\* is paid into it (a year with age >= retirementAge, or a contribution <= 0)
\* it never becomes positive, and it becomes exactly 0 only when the portfolio
\* is drained or the need equals the total available; the drawdown step never
\* turns a negative balance into a positive one.
C25_NegativeUntilPaid ==
  InYear =>
    \A k \in DOMAIN currentAssets :
      LET asset == heap[currentAssets[k]]
          unpaid == \/ yr.currentAge >= settings.retirementAge
                    \/ RLe[asset.contribution, Zero]
      IN  InDebt(k) =>
            /\ unpaid => RLt[yr.available[k], yr.opening[k]]
            /\ unpaid => RLe[asset.balance, Zero]
            /\ (unpaid /\ asset.balance = Zero) =>
                 \/ RGt[yr.shortage, Zero]
                 \/ yr.withdrawalNeeded = yr.totalAvailable
            /\ RLt[yr.available[k], Zero] => RLe[asset.balance, Zero]

C25_Witness ==
  /\ InYear
  /\ i >= 2
  /\ yr.currentAge >= settings.retirementAge
  /\ RGt[yr.actualWithdrawal, Zero]
  /\ yr.shortage = Zero
  /\ \E k \in DOMAIN currentAssets :
       /\ InDebt(k)
       /\ RLt[heap[currentAssets[k]].balance, Zero]
       /\ heap[currentAssets[k]].balance # yr.available[k]

\* the call was made on asset balances and contributions >= 0 and return
\* rates >= -100
NonNegativeInputs ==
  \A k \in DOMAIN before.assets :
    /\ RGe[before.assets[k].balance, Zero]
    /\ RGe[before.assets[k].contribution, Zero]
    /\ RGe[before.assets[k].returnRate, RInt[-100]]

\* max(requiredAnnualExpense - totalFixedIncome, 0) of the latest year
FullNeed ==
  LET gap == RSub[yr.requiredAnnualExpense, yr.totalFixedIncome]
  IN  IF RGt[gap, Zero] THEN gap ELSE Zero

\* C26: on inputs with balances and contributions >= 0 and return rates
\* >= -100, a year that starts with depletionAge set has withdrawals 0 and
\* portfolioBalance 0 (every asset is at 0), and its shortfall is the year's
\* full need max(expense - fixed income, 0): a depleted portfolio never
\* recovers.
C26_DepletedNeverRecovers ==
  (InYear /\ NonNegativeInputs /\ yr.depletionBefore # NULL) =>
    /\ yr.actualWithdrawal = Zero
    /\ data[i].withdrawals = 0
    /\ \A k \in DOMAIN currentAssets : heap[currentAssets[k]].balance = Zero
    /\ portfolioBalance = Zero
    /\ data[i].portfolioBalance = 0
    /\ yr.shortage = FullNeed
    /\ data[i].shortfall = RRound[FullNeed]

C26_Witness ==
  /\ InYear
  /\ NonNegativeInputs
  /\ yr.depletionBefore # NULL
  /\ RGt[yr.shortage, Zero]
  /\ \E k \in DOMAIN currentAssets :
       /\ RGt[before.assets[k].balance, Zero]
       /\ RGt[before.assets[k].contribution, Zero]
       /\ RGt[before.assets[k].returnRate, Zero]

C13_AdvisoryNeverFaults ==
  /\ [](/\ request.status # "faulted"
        /\ request.status = "done" =>
             LET response == request.response[1]
             IN  request.value =
                   Some(IF ~response.ok
                        THEN ErrorText
                        ELSE IF response.text = ""
                             THEN UnableText
                             ELSE response.text))
  /\ [][request' # request =>
          /\ simulationResult' = simulationResult
          /\ request'.status = "pending" =>
               request'.result = Some(simulationResult)
          /\ request'.status # "pending" => request'.result = request.result
          /\ request'.status = "done" =>
               aiAnalysis' = request'.value /\ ~isAnalyzing']_vars

C13_Witness ==
  /\ request.status = "done"
  /\ ~request.response[1].ok
  /\ aiAnalysis = Some(ErrorText)
  /\ ~isAnalyzing
  /\ ~crashed
  /\ simulationResult = request.result[1]
  /\ Len(simulationResult.data) = 2

\* C14: every advisory request started by handleAnalyze ends: the analysing
\* flag returns to false and a text is displayed, however the remote call
\* behaves (a request cut short by a render that throws is left aside).
C14_AnalysisEnds ==
  isAnalyzing ~> (crashed \/ (~isAnalyzing /\ aiAnalysis # NULL))

\* a file the application is to reject: text that does not parse, a document
\* without a scenario list or with an empty one, an entry that lacks one of
\* the three records
Malformed(file) ==
  \/ ~file.parses
  \/ ~file.hasList
  \/ file.scenarios = << >>
  \/ \E k \in DOMAIN file.scenarios :
       \/ file.scenarios[k].settings = Undefined
       \/ file.scenarios[k].assets = Undefined
       \/ file.scenarios[k].incomeStreams = Undefined

\* C15: loading a malformed file raises an alert and leaves the scenario list
\* and the active scenario as they were; runSimulation is not invoked on the
\* file's data and the display survives.
C15_MalformedFileRejected ==
  [][\A file \in Files :
       (Malformed(file) /\ HandleFileChange(file)) =>
         /\ alerted' # ""
         /\ scenarios' = scenarios
         /\ activeScenarioId' = activeScenarioId
         /\ simulated' = simulated
         /\ ~crashed']_vars

\* C28: after any sequence of scenario operations the scenario list holds at
\* least one scenario and activeScenarioId is the id of a scenario of the
\* list; deleting the only remaining scenario is rejected with an alert and
\* leaves the list and the active id as they were.
C28_ActiveScenarioExists ==
  /\ [](/\ scenarios # << >>
        /\ \E k \in DOMAIN scenarios : scenarios[k].id = activeScenarioId)
  /\ [][(Len(scenarios) = 1 /\ HandleDeleteScenario) =>
          /\ alerted' # ""
          /\ scenarios' = scenarios
          /\ activeScenarioId' = activeScenarioId]_vars

\* an edit of the active scenario: of one of its input records or of its
\* name
EditStep ==
  \/ \E field \in InputFields, inp \in EditPlans :
       UpdateActiveScenario(field, Some(inp[field]))
  \/ \E name \in TypedNames : UpdateActiveScenario("name", Some(name))

\* C29: an edit of the active scenario (settings, assets or name) leaves the
\* list's length, order and ids and the active id as they were and changes
\* no scenario whose id is not activeScenarioId; no two scenarios of the
\* list refer to the same objects, a clone and its original included.
C29_EditTouchesOnlyActive ==
  /\ [](\A j, k \in DOMAIN scenarios :
          j # k => scenarios[j].objects # scenarios[k].objects)
  /\ [][EditStep =>
          /\ activeScenarioId' = activeScenarioId
          /\ DOMAIN scenarios' = DOMAIN scenarios
          /\ \A k \in DOMAIN scenarios :
               /\ scenarios'[k].id = scenarios[k].id
               /\ scenarios'[k].objects = scenarios[k].objects
               /\ scenarios[k].id # activeScenarioId =>
                    scenarios'[k] = scenarios[k]]_vars

\* the active scenario is a clone whose settings, asset and name were edited
\* while its original kept the values it was cloned with
C29_Witness ==
  /\ ~crashed
  /\ \E j, k \in DOMAIN scenarios :
       /\ scenarios[k].id = activeScenarioId
       /\ scenarios[k].objects = Objects("clone", activeScenarioId)
       /\ scenarios[k].name = Some(BaseName)
       /\ scenarios[k].settings = Some(ScenarioBEdited.settings)
       /\ scenarios[k].assets = Some(ScenarioBEdited.assets)
       /\ scenarios[j].id # activeScenarioId
       /\ scenarios[j].name = Some(BaseName)
       /\ scenarios[j].settings = Some(ScenarioB.settings)
       /\ scenarios[j].assets = Some(ScenarioB.assets)
       /\ simulated.assets = Some(ScenarioBEdited.assets)

\* C30: an advisory text on display is the answer to the request made for
\* the plan on display: the request is done, its value is the text, and it
\* was sent with the settings of the active scenario and the simulation
\* result now shown.
C30_AnalysisOfCurrentPlan ==
  (aiAnalysis # NULL /\ ~crashed) =>
    /\ request.status = "done"
    /\ request.value = aiAnalysis
    /\ request.settings =
         ActiveScenario(scenarios, activeScenarioId).settings
    /\ request.result = Some(simulationResult)

====
